---- MODULE Spec2Model ----
(***************************************************************************)
(* A model of the sbd_lib codec: the information-element (IE) reader and   *)
(* writer, the outer message frame, and the assembly of a Message from a   *)
(* sequence of IEs.                                                        *)
(*                                                                         *)
(* Bytes are integers 0..255 and byte strings are sequences of them.       *)
(* A u16 is an integer 0..65535.  A u32 is a pair <<hi, lo>> of its two    *)
(* 16-bit halves.  The i64 Unix timestamp t is the record [hi, lo] with    *)
(* t = hi * 65536 + lo and 0 <= lo < 65536 (hi carries the sign).          *)
(* Offsets into a byte string are 0-based, like Cursor::position.          *)
(***************************************************************************)
EXTENDS Integers, Sequences, FiniteSets, TLC

VARIABLES pc, ies, msg, origin, elem, input, buf, wres, rres

vars == <<pc, ies, msg, origin, elem, input, buf, wres, rres>>

(***************************************************************************)
(* Option, errors and results                                              *)
(***************************************************************************)
None == [some |-> FALSE]
Some(x) == [some |-> TRUE, val |-> x]

Error(kind, arg) == [kind |-> kind, arg |-> arg]
NoError == Error("None", 0)
Io == Error("Io", 0)

\* not an Error: the call panics and returns nothing
Panic == Error("Panic", 0)

(***************************************************************************)
(* byteorder: big-endian integers                                          *)
(***************************************************************************)
U16BE(n) == <<(n \div 256) % 256, n % 256>>
U32BE(n) == U16BE(n[1]) \o U16BE(n[2])

\* i16 written as its two's complement 16-bit pattern
I16BE(n) == U16BE(n % 65536)

\* n bytes are left at offset pos
Avail(b, pos, n) == pos + n <= Len(b)

U8At(b, pos) == b[pos + 1]
U16At(b, pos) == b[pos + 1] * 256 + b[pos + 2]
U32At(b, pos) == <<U16At(b, pos), U16At(b, pos + 2)>>
I16At(b, pos) == IF U16At(b, pos) >= 32768 THEN U16At(b, pos) - 65536 ELSE U16At(b, pos)
BytesAt(b, pos, n) == SubSeq(b, pos + 1, pos + n)

(***************************************************************************)
(* time::OffsetDateTime, as far as the codec uses it                       *)
(***************************************************************************)
\* OffsetDateTime::unix_timestamp: whole seconds, the sub-second part dropped
unix_timestamp(t) == [hi |-> t.hi, lo |-> t.lo]

\* OffsetDateTime::from_unix_timestamp(i64::from(n)) for a u32 n: always in range
from_unix_timestamp(n) == [hi |-> n[1], lo |-> n[2], nanos |-> 0]

\* the last second OffsetDateTime::from_unix_timestamp accepts:
\* 9999-12-31 23:59:59 UTC, 253402300799 = 3866612 * 65536 + 16767
MaxUnixTimestamp == [hi |-> 3866612, lo |-> 16767]

\* OffsetDateTime::from_unix_timestamp(i64::from(n)) is Ok for the u32 n, so
\* that the `expect` on it does not panic
from_unix_timestamp_Ok(n) ==
    \/ n[1] < MaxUnixTimestamp.hi
    \/ (n[1] = MaxUnixTimestamp.hi /\ n[2] <= MaxUnixTimestamp.lo)

TimestampNegative(ts) == ts.hi < 0

\* `timestamp as u32`: the low 32 bits
TimestampAsU32(ts) == <<ts.hi % 65536, ts.lo>>

\* the i64 as an integer, for the small values an error carries
TimestampValue(ts) == ts.hi * 65536 + ts.lo

(***************************************************************************)
(* The sink: a Write.  An unlimited sink is a Vec<u8>; a limited one is a  *)
(* fixed buffer (Cursor<&mut [u8]>), whose write_all stores what fits and  *)
(* then fails.                                                             *)
(***************************************************************************)
Sink(bytes, limited, cap) == [bytes |-> bytes, limited |-> limited, cap |-> cap]

WOk(w) == [ok |-> TRUE, err |-> NoError, sink |-> w]
WErr(e, w) == [ok |-> FALSE, err |-> e, sink |-> w]

\* the steps of a writer: write these bytes, or return this error
Wr(bytes) == [fail |-> FALSE, bytes |-> bytes, err |-> NoError]
Fail(e) == [fail |-> TRUE, bytes |-> <<>>, err |-> e]

Fits(w, bytes) == ~w.limited \/ Len(w.bytes) + Len(bytes) <= w.cap

\* write_all / write_u8 / write_u16 / write_u32 on the sink
write_all(w, bytes) ==
    IF Fits(w, bytes)
    THEN WOk([w EXCEPT !.bytes = @ \o bytes])
    ELSE WErr(Io, [w EXCEPT !.bytes = @ \o SubSeq(bytes, 1, w.cap - Len(w.bytes))])

\* the steps in order, each ending the writer on its first failure (the `?`)
RECURSIVE RunSteps(_, _)
RunSteps(w, steps) ==
    IF steps = <<>> THEN WOk(w)
    ELSE IF Head(steps).fail THEN WErr(Head(steps).err, w)
    ELSE LET r == write_all(w, Head(steps).bytes)
         IN IF r.ok THEN RunSteps(r.sink, Tail(steps)) ELSE r

(***************************************************************************)
(* The values: headers, statuses, locations, information elements          *)
(***************************************************************************)
MOHeader(auto_id, imei, session_status, momsn, mtmsn, time_of_session) ==
    [kind |-> "MO", auto_id |-> auto_id, imei |-> imei,
     session_status |-> session_status, momsn |-> momsn, mtmsn |-> mtmsn,
     time_of_session |-> time_of_session]

MTHeader(message_id, imei, flags) ==
    [kind |-> "MT", message_id |-> message_id, imei |-> imei, flags |-> flags]

MOStatus(status) == [kind |-> "MO", status |-> status]

MTStatus(message_id, imei, auto_id, status) ==
    [kind |-> "MT", message_id |-> message_id, imei |-> imei,
     auto_id |-> auto_id, status |-> status]

\* mt::ConfirmationStatus::status
mt_ConfirmationStatus_status(s) == s.status > 0

\* impl From<u8> for LocationDirection
LocationDirection_from(flag) ==
    CASE flag = 64 -> "SE"
      [] flag = 128 -> "NW"
      [] flag = 192 -> "SW"
      [] OTHER -> "NE"

\* impl From<LocationDirection> for u8
LocationDirection_into(direction) ==
    CASE direction = "NE" -> 0
      [] direction = "SE" -> 64
      [] direction = "NW" -> 128
      [] direction = "SW" -> 192

\* LocationInformation::new
LocationInformation_new(flags, latitude, longitude, radius) ==
    [direction |-> LocationDirection_from(flags), latitude |-> latitude,
     longitude |-> longitude, radius |-> radius]

IEHeader(h) == [tag |-> "Header", header |-> h]
IEMOPayload(p) == [tag |-> "MOPayload", payload |-> p]
IEMTPayload(p) == [tag |-> "MTPayload", payload |-> p]
IEStatus(s) == [tag |-> "Status", status |-> s]
IELocation(l) == [tag |-> "LocationInformation", location |-> l]

\* Message::new
Message_new(header, payload, location, ie) ==
    [header |-> header, payload |-> payload, location |-> location,
     information_elements |-> ie]

(***************************************************************************)
(* len(): the size each value reports for its encoded form                 *)
(***************************************************************************)
mo_Header_len(h) == 31
mt_Header_len(h) == 24
Header_len(h) == IF h.kind = "MO" THEN mo_Header_len(h) ELSE mt_Header_len(h)

mo_ConfirmationStatus_len(s) == 4
mt_ConfirmationStatus_len(s) == 28
Status_len(s) ==
    IF s.kind = "MO" THEN mo_ConfirmationStatus_len(s) ELSE mt_ConfirmationStatus_len(s)

LocationInformation_len(l) == IF l.radius.some THEN 14 ELSE 10

InformationElement_len(e) ==
    CASE e.tag = "Header" -> Header_len(e.header)
      [] e.tag = "Status" -> Status_len(e.status)
      [] e.tag \in {"MOPayload", "MTPayload"} -> Len(e.payload) + 3
      [] e.tag = "LocationInformation" -> LocationInformation_len(e.location)

RECURSIVE SumLen(_)
SumLen(s) == IF s = <<>> THEN 0 ELSE InformationElement_len(Head(s)) + SumLen(Tail(s))

HEADER_SIZE == 3

\* Message::length
Message_length(m) ==
    Header_len(m.header) + Len(m.payload) + 1 + 2
    + (IF m.location.some THEN LocationInformation_len(m.location.val) ELSE 0)
    + SumLen(m.information_elements)
    + HEADER_SIZE

(***************************************************************************)
(* write_to: the writers                                                   *)
(***************************************************************************)
\* mo_Header_write_to with a bug: a negative timestamp written as its low 32
\* bits instead of being refused
mo_Header_write_to_NegativeWritten(h, w) ==
    RunSteps(w, << Wr(<<1>>),
                   Wr(U16BE(28)),
                   Wr(U32BE(h.auto_id)),
                   Wr(h.imei),
                   Wr(<<h.session_status>>),
                   Wr(U16BE(h.momsn)),
                   Wr(U16BE(h.mtmsn)),
                   Wr(U32BE(TimestampAsU32(unix_timestamp(h.time_of_session)))) >>)

\* impl SbdHeader for mo::Header
mo_Header_write_to(h, w) ==
    RunSteps(w, << Wr(<<1>>),
                   Wr(U16BE(28)),
                   Wr(U32BE(h.auto_id)),
                   Wr(h.imei),
                   Wr(<<h.session_status>>),
                   Wr(U16BE(h.momsn)),
                   Wr(U16BE(h.mtmsn)),
                   IF TimestampNegative(unix_timestamp(h.time_of_session))
                   THEN Fail(Error("NegativeTimestamp",
                                   TimestampValue(unix_timestamp(h.time_of_session))))
                   ELSE Wr(U32BE(TimestampAsU32(unix_timestamp(h.time_of_session)))) >>)

\* impl SbdHeader for mt::Header
mt_Header_write_to(h, w) ==
    RunSteps(w, << Wr(<<65>>),
                   Wr(U16BE(21)),
                   Wr(U32BE(h.message_id)),
                   Wr(h.imei),
                   Wr(U16BE(h.flags)) >>)

\* impl SbdHeader for Header
Header_write_to(h, w) ==
    IF h.kind = "MO" THEN mo_Header_write_to(h, w) ELSE mt_Header_write_to(h, w)

\* mo::ConfirmationStatus::write_to: the status byte alone
mo_ConfirmationStatus_write_to(s, w) ==
    RunSteps(w, << Wr(<<IF s.status THEN 1 ELSE 0>>) >>)

\* mt::ConfirmationStatus::write_to
mt_ConfirmationStatus_write_to(s, w) ==
    RunSteps(w, << Wr(<<68>>),
                   Wr(U16BE(25)),
                   Wr(U32BE(s.message_id)),
                   Wr(s.imei),
                   Wr(U32BE(s.auto_id)),
                   Wr(I16BE(s.status)) >>)

\* Status::write_to
Status_write_to(s, w) ==
    IF s.kind = "MO" THEN mo_ConfirmationStatus_write_to(s, w)
    ELSE mt_ConfirmationStatus_write_to(s, w)

\* LocationInformation_write_to with a bug: the longitude written before the
\* latitude
LocationInformation_write_to_LongitudeFirst(l, w) ==
    RunSteps(w, << Wr(<<3>>),
                   Wr(U16BE((LocationInformation_len(l) - 3) % 65536)),
                   Wr(<<LocationDirection_into(l.direction)>>),
                   Wr(<<l.longitude[1]>>),
                   Wr(U16BE(l.longitude[2])),
                   Wr(<<l.latitude[1]>>),
                   Wr(U16BE(l.latitude[2])) >>
                \o (IF l.radius.some THEN << Wr(U32BE(l.radius.val)) >> ELSE << >>))

\* LocationInformation::write_to
LocationInformation_write_to(l, w) ==
    RunSteps(w, << Wr(<<3>>),
                   Wr(U16BE((LocationInformation_len(l) - 3) % 65536)),
                   Wr(<<LocationDirection_into(l.direction)>>),
                   Wr(<<l.latitude[1]>>),
                   Wr(U16BE(l.latitude[2])),
                   Wr(<<l.longitude[1]>>),
                   Wr(U16BE(l.longitude[2])) >>
                \o (IF l.radius.some THEN << Wr(U32BE(l.radius.val)) >> ELSE << >>))

\* u16::MAX
U16_MAX == 65535

\* Payload_write_to with a bug: a payload of u16::MAX bytes refused as well
Payload_write_to_OffByOne(iei, payload, w) ==
    RunSteps(w, << Wr(<<iei>>),
                   IF Len(payload) >= U16_MAX
                   THEN Fail(Error("PayloadTooLong", Len(payload)))
                   ELSE Wr(U16BE(Len(payload))),
                   Wr(payload) >>)

\* the MOPayload / MTPayload arms of InformationElement::write_to
Payload_write_to(iei, payload, w) ==
    RunSteps(w, << Wr(<<iei>>),
                   IF Len(payload) > U16_MAX
                   THEN Fail(Error("PayloadTooLong", Len(payload)))
                   ELSE Wr(U16BE(Len(payload))),
                   Wr(payload) >>)

\* InformationElement::write_to
InformationElement_write_to(e, w) ==
    CASE e.tag = "Header" -> Header_write_to(e.header, w)
      [] e.tag = "Status" -> Status_write_to(e.status, w)
      [] e.tag = "MOPayload" -> Payload_write_to(2, e.payload, w)
      [] e.tag = "MTPayload" -> Payload_write_to(66, e.payload, w)
      [] e.tag = "LocationInformation" -> LocationInformation_write_to(e.location, w)

\* the loop over self.information_elements in Message::write_to
RECURSIVE WriteElements(_, _)
WriteElements(s, w) ==
    IF s = <<>> THEN WOk(w)
    ELSE LET r == InformationElement_write_to(Head(s), w)
         IN IF r.ok THEN WriteElements(Tail(s), r.sink) ELSE r

\* `self.location.and_then(|l| l.write_to(&mut write).ok())`: the location is
\* written and the result of writing it is dropped
WriteLocationIgnoringResult(location, w) ==
    IF location.some
    THEN WOk(LocationInformation_write_to(location.val, w).sink)
    ELSE WOk(w)

PROTOCOL_REVISION_NUMBER == 1

\* Message_write_to with a bug: the location written after the other elements
Message_write_to_LocationLast(m, w) ==
    LET payload == IF m.header.kind = "MO" THEN IEMOPayload(m.payload)
                   ELSE IEMTPayload(m.payload)
        overall_message_length == Message_length(m) - 3
    IN  IF overall_message_length > U16_MAX
        THEN WErr(Error("OverallMessageLength", overall_message_length), w)
        ELSE LET r1 == RunSteps(w, << Wr(<<PROTOCOL_REVISION_NUMBER>>),
                                      Wr(U16BE(overall_message_length)) >>)
             IN IF ~r1.ok THEN r1 ELSE
             LET r2 == Header_write_to(m.header, r1.sink)
             IN IF ~r2.ok THEN r2 ELSE
             LET r3 == InformationElement_write_to(payload, r2.sink)
             IN IF ~r3.ok THEN r3 ELSE
             LET r4 == WriteElements(m.information_elements, r3.sink)
             IN IF ~r4.ok THEN r4 ELSE WriteLocationIgnoringResult(m.location, r4.sink)

\* Message_write_to with a bug: the overall length not examined at all
Message_write_to_NoOverallCheck(m, w) ==
    LET payload == IF m.header.kind = "MO" THEN IEMOPayload(m.payload)
                   ELSE IEMTPayload(m.payload)
        overall_message_length == Message_length(m) - 3
        r1 == RunSteps(w, << Wr(<<PROTOCOL_REVISION_NUMBER>>),
                             Wr(U16BE(overall_message_length % 65536)) >>)
    IN  IF ~r1.ok THEN r1 ELSE
        LET r2 == Header_write_to(m.header, r1.sink)
        IN IF ~r2.ok THEN r2 ELSE
        LET r3 == InformationElement_write_to(payload, r2.sink)
        IN IF ~r3.ok THEN r3 ELSE
        LET r4 == WriteLocationIgnoringResult(m.location, r3.sink)
        IN WriteElements(m.information_elements, r4.sink)

\* Message_write_to with a bug: the overall length examined after the revision
\* byte has been written
Message_write_to_RevisionFirst(m, w) ==
    LET payload == IF m.header.kind = "MO" THEN IEMOPayload(m.payload)
                   ELSE IEMTPayload(m.payload)
        overall_message_length == Message_length(m) - 3
        r0 == RunSteps(w, << Wr(<<PROTOCOL_REVISION_NUMBER>>) >>)
    IN  IF ~r0.ok THEN r0
        ELSE IF overall_message_length > U16_MAX
        THEN WErr(Error("OverallMessageLength", overall_message_length), r0.sink)
        ELSE LET r1 == RunSteps(r0.sink, << Wr(U16BE(overall_message_length)) >>)
             IN IF ~r1.ok THEN r1 ELSE
             LET r2 == Header_write_to(m.header, r1.sink)
             IN IF ~r2.ok THEN r2 ELSE
             LET r3 == InformationElement_write_to(payload, r2.sink)
             IN IF ~r3.ok THEN r3 ELSE
             LET r4 == WriteLocationIgnoringResult(m.location, r3.sink)
             IN WriteElements(m.information_elements, r4.sink)

\* Message::write_to
Message_write_to(m, w) ==
    LET payload == IF m.header.kind = "MO" THEN IEMOPayload(m.payload)
                   ELSE IEMTPayload(m.payload)
        overall_message_length == Message_length(m) - 3
    IN  IF overall_message_length > U16_MAX
        THEN WErr(Error("OverallMessageLength", overall_message_length), w)
        ELSE LET r1 == RunSteps(w, << Wr(<<PROTOCOL_REVISION_NUMBER>>),
                                      Wr(U16BE(overall_message_length)) >>)
             IN IF ~r1.ok THEN r1 ELSE
             LET r2 == Header_write_to(m.header, r1.sink)
             IN IF ~r2.ok THEN r2 ELSE
             LET r3 == InformationElement_write_to(payload, r2.sink)
             IN IF ~r3.ok THEN r3 ELSE
             LET r4 == WriteLocationIgnoringResult(m.location, r3.sink)
             IN WriteElements(m.information_elements, r4.sink)

(***************************************************************************)
(* read_from: the readers.  A reader is given the bytes b and the offset   *)
(* pos it starts at, and returns the value and the offset it stopped at.   *)
(* A read of more bytes than are left fails with Io and leaves the cursor  *)
(* at the end of the bytes.                                                *)
(***************************************************************************)
ROk(v, pos) == [ok |-> TRUE, err |-> NoError, val |-> v, pos |-> pos]
RErr(e, pos) == [ok |-> FALSE, err |-> e, pos |-> pos]
Eof(b) == RErr(Io, Len(b))

\* the session status codes of the DirectIP enumeration
SessionStatusCodes == {0, 1, 2, 10, 12, 13, 14, 15}

\* SessionStatus::new
SessionStatus_new(n) == n \in SessionStatusCodes

\* mo_Header_read_from with a bug: the session status byte taken as it comes
mo_Header_read_from_StatusUnchecked(b, pos) ==
    IF ~Avail(b, pos, 4) THEN Eof(b)
    ELSE IF ~Avail(b, pos + 4, 15) THEN Eof(b)
    ELSE IF ~Avail(b, pos + 19, 1) THEN Eof(b)
    ELSE IF ~Avail(b, pos + 20, 2) THEN Eof(b)
    ELSE IF ~Avail(b, pos + 22, 2) THEN Eof(b)
    ELSE IF ~Avail(b, pos + 24, 4) THEN Eof(b)
    ELSE IF ~from_unix_timestamp_Ok(U32At(b, pos + 24)) THEN RErr(Panic, pos + 28)
    ELSE ROk(MOHeader(U32At(b, pos), BytesAt(b, pos + 4, 15), U8At(b, pos + 19),
                      U16At(b, pos + 20), U16At(b, pos + 22),
                      from_unix_timestamp(U32At(b, pos + 24))),
             pos + 28)

\* mo_Header_read_from with a bug: the time field taken for a signed 32-bit
\* count whose conversion is refused from 2^31 on, and the refusal unwrapped
mo_Header_read_from_SignedTime(b, pos) ==
    IF ~Avail(b, pos, 4) THEN Eof(b)
    ELSE IF ~Avail(b, pos + 4, 15) THEN Eof(b)
    ELSE IF ~Avail(b, pos + 19, 1) THEN Eof(b)
    ELSE IF ~SessionStatus_new(U8At(b, pos + 19))
         THEN RErr(Error("UnknownSessionStatus", U8At(b, pos + 19)), pos + 20)
    ELSE IF ~Avail(b, pos + 20, 2) THEN Eof(b)
    ELSE IF ~Avail(b, pos + 22, 2) THEN Eof(b)
    ELSE IF ~Avail(b, pos + 24, 4) THEN Eof(b)
    ELSE IF U32At(b, pos + 24)[1] >= 32768 THEN RErr(Panic, pos + 28)
    ELSE ROk(MOHeader(U32At(b, pos), BytesAt(b, pos + 4, 15), U8At(b, pos + 19),
                      U16At(b, pos + 20), U16At(b, pos + 22),
                      from_unix_timestamp(U32At(b, pos + 24))),
             pos + 28)

\* mo::Header::read_from
mo_Header_read_from(b, pos) ==
    IF ~Avail(b, pos, 4) THEN Eof(b)
    ELSE IF ~Avail(b, pos + 4, 15) THEN Eof(b)
    ELSE IF ~Avail(b, pos + 19, 1) THEN Eof(b)
    ELSE IF ~SessionStatus_new(U8At(b, pos + 19))
         THEN RErr(Error("UnknownSessionStatus", U8At(b, pos + 19)), pos + 20)
    ELSE IF ~Avail(b, pos + 20, 2) THEN Eof(b)
    ELSE IF ~Avail(b, pos + 22, 2) THEN Eof(b)
    ELSE IF ~Avail(b, pos + 24, 4) THEN Eof(b)
    ELSE IF ~from_unix_timestamp_Ok(U32At(b, pos + 24)) THEN RErr(Panic, pos + 28)
    ELSE ROk(MOHeader(U32At(b, pos), BytesAt(b, pos + 4, 15), U8At(b, pos + 19),
                      U16At(b, pos + 20), U16At(b, pos + 22),
                      from_unix_timestamp(U32At(b, pos + 24))),
             pos + 28)

\* mt::Header::read_from
mt_Header_read_from(b, pos) ==
    IF ~Avail(b, pos, 4) THEN Eof(b)
    ELSE IF ~Avail(b, pos + 4, 15) THEN Eof(b)
    ELSE IF ~Avail(b, pos + 19, 2) THEN Eof(b)
    ELSE ROk(MTHeader(U32At(b, pos), BytesAt(b, pos + 4, 15), U16At(b, pos + 19)),
             pos + 21)

\* mo::ConfirmationStatus::read_from
mo_ConfirmationStatus_read_from(b, pos) ==
    IF ~Avail(b, pos, 1) THEN Eof(b)
    ELSE ROk(MOStatus(U8At(b, pos) = 1), pos + 1)

\* mt_ConfirmationStatus_read_from with a bug: the status read as unsigned
mt_ConfirmationStatus_read_from_Unsigned(b, pos) ==
    IF ~Avail(b, pos, 4) THEN Eof(b)
    ELSE IF ~Avail(b, pos + 4, 15) THEN Eof(b)
    ELSE IF ~Avail(b, pos + 19, 4) THEN Eof(b)
    ELSE IF ~Avail(b, pos + 23, 2) THEN Eof(b)
    ELSE ROk(MTStatus(U32At(b, pos), BytesAt(b, pos + 4, 15), U32At(b, pos + 19),
                      U16At(b, pos + 23)),
             pos + 25)

\* mt::ConfirmationStatus::read_from
mt_ConfirmationStatus_read_from(b, pos) ==
    IF ~Avail(b, pos, 4) THEN Eof(b)
    ELSE IF ~Avail(b, pos + 4, 15) THEN Eof(b)
    ELSE IF ~Avail(b, pos + 19, 4) THEN Eof(b)
    ELSE IF ~Avail(b, pos + 23, 2) THEN Eof(b)
    ELSE ROk(MTStatus(U32At(b, pos), BytesAt(b, pos + 4, 15), U32At(b, pos + 19),
                      I16At(b, pos + 23)),
             pos + 25)

\* the 0x2 | 0x42 arm of read_single: `length` bytes, whole or not at all
ReadPayload(iei, length, b, pos) ==
    IF ~Avail(b, pos, length) THEN Eof(b)
    ELSE ROk(IF iei = 2 THEN IEMOPayload(BytesAt(b, pos, length))
             ELSE IEMTPayload(BytesAt(b, pos, length)),
             pos + length)

\* ReadLocation with a bug: a radius read from every body of 11 bytes or more
ReadLocation_RadiusFromLongBody(length, b, pos) ==
    IF ~Avail(b, pos, length) THEN Eof(b)
    ELSE LET location == BytesAt(b, pos, length)
         IN IF ~Avail(location, 0, 1) THEN RErr(Io, pos + length)
            ELSE IF ~Avail(location, 1, 1) THEN RErr(Io, pos + length)
            ELSE IF ~Avail(location, 2, 2) THEN RErr(Io, pos + length)
            ELSE IF ~Avail(location, 4, 1) THEN RErr(Io, pos + length)
            ELSE IF ~Avail(location, 5, 2) THEN RErr(Io, pos + length)
            ELSE ROk(IELocation(LocationInformation_new(
                         U8At(location, 0),
                         <<U8At(location, 1), U16At(location, 2)>>,
                         <<U8At(location, 4), U16At(location, 5)>>,
                         IF length >= 11 THEN Some(U32At(location, 7)) ELSE None)),
                     pos + length)

\* the 0x3 arm of read_single: `length` bytes into a buffer of their own, the
\* fields read from a cursor over that buffer
ReadLocation(length, b, pos) ==
    IF ~Avail(b, pos, length) THEN Eof(b)
    ELSE LET location == BytesAt(b, pos, length)
         IN IF ~Avail(location, 0, 1) THEN RErr(Io, pos + length)
            ELSE IF ~Avail(location, 1, 1) THEN RErr(Io, pos + length)
            ELSE IF ~Avail(location, 2, 2) THEN RErr(Io, pos + length)
            ELSE IF ~Avail(location, 4, 1) THEN RErr(Io, pos + length)
            ELSE IF ~Avail(location, 5, 2) THEN RErr(Io, pos + length)
            ELSE IF length = 11 /\ ~Avail(location, 7, 4) THEN RErr(Io, pos + length)
            ELSE ROk(IELocation(LocationInformation_new(
                         U8At(location, 0),
                         <<U8At(location, 1), U16At(location, 2)>>,
                         <<U8At(location, 4), U16At(location, 5)>>,
                         IF length = 11 THEN Some(U32At(location, 7)) ELSE None)),
                     pos + length)

\* a reader's value made an information element (the `?` and the `.into()`)
IntoHeader(r) == IF r.ok THEN ROk(IEHeader(r.val), r.pos) ELSE r
IntoStatus(r) == IF r.ok THEN ROk(IEStatus(r.val), r.pos) ELSE r

\* ReadBody with a bug: 0x43 taken for an MT confirmation status as well
ReadBody_Accepts0x43(iei, length, b, pos) ==
    CASE iei = 1 -> IntoHeader(mo_Header_read_from(b, pos))
      [] iei = 65 -> IntoHeader(mt_Header_read_from(b, pos))
      [] iei \in {2, 66} -> ReadPayload(iei, length, b, pos)
      [] iei = 3 -> ReadLocation(length, b, pos)
      [] iei \in {67, 68} -> IntoStatus(mt_ConfirmationStatus_read_from(b, pos))
      [] iei = 5 -> IntoStatus(mo_ConfirmationStatus_read_from(b, pos))
      [] OTHER -> RErr(Error("InvalidInformationElementIdentifier", iei), pos)

\* the dispatch of read_single on the identifier
ReadBody(iei, length, b, pos) ==
    CASE iei = 1 -> IntoHeader(mo_Header_read_from(b, pos))
      [] iei = 65 -> IntoHeader(mt_Header_read_from(b, pos))
      [] iei \in {2, 66} -> ReadPayload(iei, length, b, pos)
      [] iei = 3 -> ReadLocation(length, b, pos)
      [] iei = 68 -> IntoStatus(mt_ConfirmationStatus_read_from(b, pos))
      [] iei = 5 -> IntoStatus(mo_ConfirmationStatus_read_from(b, pos))
      [] OTHER -> RErr(Error("InvalidInformationElementIdentifier", iei), pos)

\* InformationElement::read_single
InformationElement_read_single(b, pos) ==
    IF ~Avail(b, pos, 1) THEN Eof(b)
    ELSE IF ~Avail(b, pos + 1, 2) THEN Eof(b)
    ELSE ReadBody(U8At(b, pos), U16At(b, pos + 1), b, pos + 3)

\* the while loop of parse over the bounded buffer `message`
RECURSIVE ParseLoop(_, _, _, _)
ParseLoop(message, position, overall_message_length, information_elements) ==
    IF position < overall_message_length
    THEN LET r == InformationElement_read_single(message, position)
         IN IF r.ok
            THEN ParseLoop(message, r.pos, overall_message_length,
                           Append(information_elements, r.val))
            ELSE r
    ELSE ROk(information_elements, position)

\* InformationElement_parse with a bug: the elements read from the source
\* itself, not from a buffer of the declared length
InformationElement_parse_Unbounded(b) ==
    IF ~Avail(b, 0, 1) THEN [ok |-> FALSE, err |-> Io, pos |-> Len(b), cursor |-> 0]
    ELSE IF U8At(b, 0) # PROTOCOL_REVISION_NUMBER
         THEN [ok |-> FALSE, err |-> Error("InvalidProtocolRevisionNumber", U8At(b, 0)),
               pos |-> 1, cursor |-> 0]
    ELSE IF ~Avail(b, 1, 2) THEN [ok |-> FALSE, err |-> Io, pos |-> Len(b), cursor |-> 0]
    ELSE LET overall_message_length == U16At(b, 1)
             r == ParseLoop(BytesAt(b, 3, Len(b) - 3), 0, overall_message_length, <<>>)
         IN IF r.ok
            THEN [ok |-> TRUE, err |-> NoError, val |-> r.val,
                  pos |-> 3 + r.pos, cursor |-> r.pos]
            ELSE [ok |-> FALSE, err |-> r.err, pos |-> 3 + r.pos, cursor |-> r.pos]

\* InformationElement_parse with a bug: the revision examined only after the
\* overall length has been read
InformationElement_parse_RevisionAfterLength(b) ==
    IF ~Avail(b, 0, 1) THEN [ok |-> FALSE, err |-> Io, pos |-> Len(b), cursor |-> 0]
    ELSE IF ~Avail(b, 1, 2) THEN [ok |-> FALSE, err |-> Io, pos |-> Len(b), cursor |-> 0]
    ELSE IF U8At(b, 0) # PROTOCOL_REVISION_NUMBER
         THEN [ok |-> FALSE, err |-> Error("InvalidProtocolRevisionNumber", U8At(b, 0)),
               pos |-> 3, cursor |-> 0]
    ELSE IF ~Avail(b, 3, U16At(b, 1))
         THEN [ok |-> FALSE, err |-> Io, pos |-> Len(b), cursor |-> 0]
    ELSE LET overall_message_length == U16At(b, 1)
             r == ParseLoop(BytesAt(b, 3, overall_message_length), 0,
                            overall_message_length, <<>>)
         IN IF r.ok
            THEN [ok |-> TRUE, err |-> NoError, val |-> r.val,
                  pos |-> 3 + overall_message_length, cursor |-> r.pos]
            ELSE [ok |-> FALSE, err |-> r.err,
                  pos |-> 3 + overall_message_length, cursor |-> r.pos]

\* InformationElement::parse.  pos is what was consumed of the source; cursor is
\* the position reached in the bounded buffer.
InformationElement_parse(b) ==
    IF ~Avail(b, 0, 1) THEN [ok |-> FALSE, err |-> Io, pos |-> Len(b), cursor |-> 0]
    ELSE IF U8At(b, 0) # PROTOCOL_REVISION_NUMBER
         THEN [ok |-> FALSE, err |-> Error("InvalidProtocolRevisionNumber", U8At(b, 0)),
               pos |-> 1, cursor |-> 0]
    ELSE IF ~Avail(b, 1, 2) THEN [ok |-> FALSE, err |-> Io, pos |-> Len(b), cursor |-> 0]
    ELSE IF ~Avail(b, 3, U16At(b, 1))
         THEN [ok |-> FALSE, err |-> Io, pos |-> Len(b), cursor |-> 0]
    ELSE LET overall_message_length == U16At(b, 1)
             r == ParseLoop(BytesAt(b, 3, overall_message_length), 0,
                            overall_message_length, <<>>)
         IN IF r.ok
            THEN [ok |-> TRUE, err |-> NoError, val |-> r.val,
                  pos |-> 3 + overall_message_length, cursor |-> r.pos]
            ELSE [ok |-> FALSE, err |-> r.err,
                  pos |-> 3 + overall_message_length, cursor |-> r.pos]

(***************************************************************************)
(* Message::create: the assembly of a Message from information elements    *)
(***************************************************************************)
Slots(header, payload, location, information_elements) ==
    [failed |-> FALSE, err |-> NoError, header |-> header, payload |-> payload,
     location |-> location, information_elements |-> information_elements]

SlotsFailed(slots, e) == [slots EXCEPT !.failed = TRUE, !.err = e]

\* CreateStep with a bug: a second payload replaces the first
CreateStep_SecondPayloadWins(slots, information_element) ==
    CASE information_element.tag = "Header" ->
            IF slots.header.some THEN SlotsFailed(slots, Error("TwoHeaders", 0))
            ELSE [slots EXCEPT !.header = Some(information_element.header)]
      [] information_element.tag \in {"MOPayload", "MTPayload"} ->
            [slots EXCEPT !.payload = Some(information_element.payload)]
      [] information_element.tag = "LocationInformation" ->
            IF slots.location.some THEN SlotsFailed(slots, Error("TwoLocations", 0))
            ELSE [slots EXCEPT !.location = Some(information_element.location)]
      [] OTHER ->
            [slots EXCEPT !.information_elements = Append(@, information_element)]

\* CreateStep with a bug: the other elements are kept newest first
CreateStep_OthersReversed(slots, information_element) ==
    CASE information_element.tag = "Header" ->
            IF slots.header.some THEN SlotsFailed(slots, Error("TwoHeaders", 0))
            ELSE [slots EXCEPT !.header = Some(information_element.header)]
      [] information_element.tag \in {"MOPayload", "MTPayload"} ->
            IF slots.payload.some THEN SlotsFailed(slots, Error("TwoPayloads", 0))
            ELSE [slots EXCEPT !.payload = Some(information_element.payload)]
      [] information_element.tag = "LocationInformation" ->
            IF slots.location.some THEN SlotsFailed(slots, Error("TwoLocations", 0))
            ELSE [slots EXCEPT !.location = Some(information_element.location)]
      [] OTHER ->
            [slots EXCEPT !.information_elements = <<information_element>> \o @]

\* the body of the for loop: one element into its slot
CreateStep(slots, information_element) ==
    CASE information_element.tag = "Header" ->
            IF slots.header.some THEN SlotsFailed(slots, Error("TwoHeaders", 0))
            ELSE [slots EXCEPT !.header = Some(information_element.header)]
      [] information_element.tag \in {"MOPayload", "MTPayload"} ->
            IF slots.payload.some THEN SlotsFailed(slots, Error("TwoPayloads", 0))
            ELSE [slots EXCEPT !.payload = Some(information_element.payload)]
      [] information_element.tag = "LocationInformation" ->
            IF slots.location.some THEN SlotsFailed(slots, Error("TwoLocations", 0))
            ELSE [slots EXCEPT !.location = Some(information_element.location)]
      [] OTHER ->
            [slots EXCEPT !.information_elements = Append(@, information_element)]

\* the for loop, left at the first error
RECURSIVE CreateLoop(_, _)
CreateLoop(slots, iter) ==
    IF iter = <<>> \/ slots.failed THEN slots
    ELSE CreateLoop(CreateStep(slots, Head(iter)), Tail(iter))

COk(m) == [ok |-> TRUE, err |-> NoError, val |-> m]
CErr(e) == [ok |-> FALSE, err |-> e]

\* CreateFinish with a bug: a missing header or payload reported before a
\* duplicate
CreateFinish_MissingBeforeDuplicate(slots) ==
    IF ~slots.header.some THEN CErr(Error("NoHeader", 0))
    ELSE IF ~slots.payload.some THEN CErr(Error("NoPayload", 0))
    ELSE IF slots.failed THEN CErr(slots.err)
    ELSE COk(Message_new(slots.header.val, slots.payload.val, slots.location,
                         slots.information_elements))

\* CreateFinish with a bug: the payload asked for before the header
CreateFinish_PayloadFirst(slots) ==
    IF slots.failed THEN CErr(slots.err)
    ELSE IF ~slots.payload.some THEN CErr(Error("NoPayload", 0))
    ELSE IF ~slots.header.some THEN CErr(Error("NoHeader", 0))
    ELSE COk(Message_new(slots.header.val, slots.payload.val, slots.location,
                         slots.information_elements))

\* the end of create: both required slots, the header asked for first
CreateFinish(slots) ==
    IF slots.failed THEN CErr(slots.err)
    ELSE IF ~slots.header.some THEN CErr(Error("NoHeader", 0))
    ELSE IF ~slots.payload.some THEN CErr(Error("NoPayload", 0))
    ELSE COk(Message_new(slots.header.val, slots.payload.val, slots.location,
                         slots.information_elements))

\* Message::create
Message_create(iter) == CreateFinish(CreateLoop(Slots(None, None, None, <<>>), iter))

\* Message::read_from
Message_read_from(b) ==
    LET r == InformationElement_parse(b)
    IN IF r.ok
       THEN LET c == Message_create(r.val)
            IN IF c.ok
               THEN [ok |-> TRUE, err |-> NoError, val |-> c.val, pos |-> r.pos,
                     cursor |-> r.cursor]
               ELSE [ok |-> FALSE, err |-> c.err, pos |-> r.pos, cursor |-> r.cursor]
       ELSE r

\* Message::from_path: `File::open(path)?`, then `Self::read_from(file)`; the
\* path names no file (None) or a file holding bytes
Message_from_path(file) ==
    IF ~file.some
    THEN [ok |-> FALSE, err |-> Io, pos |-> 0, cursor |-> 0]
    ELSE Message_read_from(file.val)

(***************************************************************************)
(* The values the model draws its inputs from                              *)
(***************************************************************************)
MaxPayloadLen == 2
MaxIEs == 4
MaxOther == 2
MaxWire == 3
TinySink == 12
SmallSink == 40

SeqsUpTo(S, n) == UNION {[1..k -> S] : k \in 0..n}

RECURSIVE Concat(_)
Concat(ss) == IF ss = <<>> THEN <<>> ELSE Head(ss) \o Concat(Tail(ss))

\* "300234063904190" and the identifier of the tests' mo_header()
ImeiA == <<51, 48, 48, 50, 51, 52, 48, 54, 51, 57, 48, 52, 49, 57, 48>>
ImeiB == <<0, 1, 2, 3, 4, 5, 6, 7, 8, 9, 10, 11, 12, 13, 14>>

\* 2015-07-09 18:15:08 (1436465708), the epoch, one second before it, a time
\* past the 32-bit range (2^32 + 5), and a time with a sub-second part
T2015 == [hi |-> 21918, lo |-> 47660, nanos |-> 0]
TEpoch == [hi |-> 0, lo |-> 0, nanos |-> 0]
TBeforeEpoch == [hi |-> -1, lo |-> 65535, nanos |-> 0]
TPast32Bits == [hi |-> 65536, lo |-> 5, nanos |-> 0]
TSubSecond == [hi |-> 0, lo |-> 10, nanos |-> 500000000]
Times == {T2015, TEpoch, TBeforeEpoch, TPast32Bits, TSubSecond}

\* the last second the 32-bit field carries: 2106-02-07 06:28:15 (2^32 - 1)
TLast32Bits == [hi |-> 65535, lo |-> 65535, nanos |-> 0]

HeaderMO(t) == MOHeader(<<28908, 2153>>, ImeiA, 0, 75, 0, t)
HeaderMT == MTHeader(<<4386, 13124>>, ImeiA, 32)
MessageHeaders == {HeaderMO(t) : t \in Times} \cup {HeaderMT}
Headers ==
    MessageHeaders
    \cup {MOHeader(<<0, 1>>, ImeiB, 13, 1, 258, T2015), MTHeader(<<0, 1>>, ImeiB, 0)}

PayloadText == <<116, 101, 115, 116, 32, 109, 101, 115, 115, 97, 103, 101>>
Payloads == {SubSeq(PayloadText, 1, n) : n \in 0..MaxPayloadLen}

\* payloads around the 16-bit limits: the longest an MT message without other
\* elements can carry (27 bytes of header and prefixes beside it), one byte
\* more, the longest a payload element can carry, one byte more
Zeros(n) == [i \in 1..n |-> 0]
LargePayloadLengths == {U16_MAX - 27, U16_MAX - 26, U16_MAX, U16_MAX + 1}
LargePayloads == {Zeros(n) : n \in LargePayloadLengths}

\* the locations of the tests: location() and the `loc` of
\* sbd_mo_message_wit_location in sbd_message.rs, both with a radius, and the
\* one without a radius of roundtrip_location_information
tests_location == LocationInformation_new(0, <<43, 30854>>, <<41, 48860>>, Some(<<0, 3>>))
tests_loc == LocationInformation_new(0, <<60, 5132>>, <<29, 14176>>, Some(<<0, 93>>))
LocationNE == LocationInformation_new(0, <<60, 1111>>, <<60, 1111>>, None)
\* a location south-west of the origin
LocationSW == LocationInformation_new(192, <<43, 30854>>, <<41, 48860>>, Some(<<0, 93>>))
Latitudes == {<<0, 0>>, <<60, 5132>>, <<255, 65535>>}
Longitudes == {<<0, 0>>, <<29, 14176>>, <<255, 65535>>}
Locations ==
    {LocationInformation_new(f, lat, lon, r) :
        f \in {0, 64, 128, 192}, lat \in Latitudes, lon \in Longitudes,
        r \in {None, Some(<<0, 93>>), Some(<<65535, 65535>>)}}
    \cup {tests_location, tests_loc, LocationNE, LocationSW}
MessageLocations == {None, Some(LocationNE), Some(tests_loc), Some(LocationSW)}

StatusMT == MTStatus(<<4386, 13124>>, ImeiA, <<46755, 30742>>, 1)
Statuses ==
    {MOStatus(TRUE), MOStatus(FALSE), StatusMT}
    \cup {MTStatus(<<0, 1>>, ImeiB, <<0, 2>>, n) : n \in {-32768, -3, 0, 32767}}
    \cup {MTStatus(<<65535, 65535>>, ImeiA, <<65535, 65535>>, -1)}

\* every kind of information element
Elements ==
    {IEHeader(h) : h \in Headers}
    \cup {IEMOPayload(p) : p \in Payloads \cup LargePayloads}
    \cup {IEMTPayload(p) : p \in Payloads \cup LargePayloads}
    \cup {IELocation(l) : l \in Locations}
    \cup {IEStatus(s) : s \in Statuses}

\* the elements Message::create is handed
CreateElements ==
    {IEHeader(HeaderMO(T2015)), IEHeader(HeaderMT),
     IEMOPayload(SubSeq(PayloadText, 1, 1)), IEMTPayload(<<>>),
     IELocation(LocationNE), IELocation(tests_location),
     IEStatus(MOStatus(TRUE)), IEStatus(StatusMT)}

\* the elements Message::new is handed as `ie`
OtherElements ==
    {IEStatus(MOStatus(TRUE)), IEStatus(MOStatus(FALSE)), IEStatus(StatusMT),
     IEMTPayload(SubSeq(PayloadText, 1, 1))}

Sinks == {Sink(<<>>, FALSE, 0), Sink(<<>>, TRUE, TinySink), Sink(<<>>, TRUE, SmallSink)}

\* the bytes the writer gives for an element, in a Vec
Encoded(e) == InformationElement_write_to(e, Sink(<<>>, FALSE, 0)).sink.bytes

\* an information element on the wire: identifier, declared length, body
Wire(iei, length, body) == <<iei>> \o U16BE(length) \o body

\* information elements as a peer may send them: the writer's own forms, an MO
\* header with the time field all ones, a location with a declared length of 8,
\* a location with low flag bits set, MO confirmation statuses, an MO status
\* with a declared length of 2, an MO header with an unknown session status
WireElements ==
    {Encoded(IEHeader(HeaderMO(T2015))), Encoded(IEHeader(HeaderMT)),
     Encoded(IEHeader(HeaderMO(TLast32Bits))),
     Encoded(IEMOPayload(SubSeq(PayloadText, 1, 2))), Encoded(IEMTPayload(<<>>)),
     Encoded(IELocation(LocationNE)), Encoded(IELocation(tests_location)),
     Encoded(IEStatus(StatusMT)),
     Wire(3, 8, <<0, 60, 20, 12, 29, 55, 96, 0>>),
     Wire(3, 7, <<65, 60, 20, 12, 29, 55, 96>>),
     Wire(5, 1, <<1>>), Wire(5, 1, <<2>>), Wire(5, 2, <<1, 0>>),
     Wire(1, 28, SubSeq(Encoded(IEHeader(MOHeader(<<0, 1>>, ImeiB, 3, 1, 0, TEpoch))),
                        4, 31))}

\* a framed message: revision, overall length, information elements
Frame(revision, overall_message_length, body) ==
    <<revision>> \o U16BE(overall_message_length) \o body

\* frames whose declared length is that of their body, and the same with the
\* length one more or one less, another revision, or a byte after the end
FrameInputs ==
    UNION {{Frame(1, Len(Concat(ws)), Concat(ws))} : ws \in SeqsUpTo(WireElements, MaxWire)}
    \cup UNION {{Frame(1, Len(Concat(ws)) + 1, Concat(ws)),
                 Frame(1, Len(Concat(ws)) - 1, Concat(ws)),
                 Frame(2, Len(Concat(ws)), Concat(ws)),
                 Frame(1, Len(Concat(ws)), Concat(ws) \o <<0>>)} :
                    ws \in [1..2 -> {Encoded(IEHeader(HeaderMO(T2015))),
                                     Encoded(IEMOPayload(SubSeq(PayloadText, 1, 2)))}]}

\* single information elements: any identifier, any declared length, a body of
\* any length cut from an MO header body, a location body or an MT status body
Identifiers == {1, 65, 2, 66, 3, 5, 68, 0, 4, 67, 255}
DeclaredLengths == {0, 1, 2, 7, 8, 11, 21, 25, 28, 40}
BodyLengths == {0, 1, 6, 7, 8, 11, 12, 20, 21, 24, 25, 27, 28, 29, 30}
Bodies ==
    {SubSeq(Encoded(IEHeader(HeaderMO(T2015))), 4, 31) \o <<1, 0>>,
     SubSeq(Encoded(IEStatus(StatusMT)), 4, 28) \o <<3, 0, 7, 0, 60>>}
RawInputs ==
    {Wire(t, l, SubSeq(body, 1, n)) :
        t \in Identifiers, l \in DeclaredLengths, body \in Bodies, n \in BodyLengths}
    \cup {SubSeq(<<t, 0>>, 1, n) : t \in Identifiers, n \in 0..2}

\* MO headers with session status bytes inside and outside the enumeration,
\* bare and framed with a payload behind them
SessionStatusBytes == {0, 1, 2, 3, 9, 10, 11, 12, 13, 14, 15, 16, 255}
SessionStatusInputs ==
    UNION {{Encoded(IEHeader(MOHeader(<<0, 1>>, ImeiB, c, 1, 0, T2015))),
            Frame(1, 35,
                  Encoded(IEHeader(MOHeader(<<0, 1>>, ImeiB, c, 1, 0, T2015)))
                  \o Encoded(IEMOPayload(SubSeq(PayloadText, 1, 1))))} :
                c \in SessionStatusBytes}

\* the single information elements again, each framed as a message of its own
FramedRawInputs == {Frame(1, Len(r), r) : r \in RawInputs}

(***************************************************************************)
(* The state machine                                                       *)
(*   pc      what has been done last                                       *)
(*   ies     the elements given to Message::create                         *)
(*   msg     the Message in hand, built by new, create, read_from or       *)
(*           from_path                                                     *)
(*   origin  which of them built it                                        *)
(*   elem    the information element given to InformationElement::write_to *)
(*   input   the bytes of the reader or the file a decoder was given       *)
(*   buf     the bytes in hand: supplied, or left in the sink by a writer  *)
(*   wres    the result of the last writer, with its sink                  *)
(*   rres    the result of the last reader or of create                    *)
(***************************************************************************)
Nothing == [none |-> TRUE]

Init ==
    /\ pc = "start"
    /\ ies = <<>>
    /\ msg = Nothing
    /\ origin = "none"
    /\ elem = Nothing
    /\ input = <<>>
    /\ buf = <<>>
    /\ wres = Nothing
    /\ rres = Nothing

\* the caller builds a Message with Message::new
New ==
    /\ pc = "start"
    /\ \/ \E h \in MessageHeaders, p \in Payloads, l \in MessageLocations,
             ie \in SeqsUpTo(OtherElements, MaxOther) :
               msg' = Message_new(h, p, l, ie)
       \/ \E h \in {HeaderMO(T2015), HeaderMT}, p \in LargePayloads,
             l \in MessageLocations, ie \in {<<>>, <<IEStatus(StatusMT)>>} :
               msg' = Message_new(h, p, l, ie)
    /\ origin' = "new"
    /\ pc' = "message"
    /\ UNCHANGED <<ies, elem, input, buf, wres, rres>>

\* the caller hands information elements to Message::create
Create ==
    /\ pc = "start"
    /\ \E iter \in SeqsUpTo(CreateElements, MaxIEs) :
        /\ ies' = iter
        /\ rres' = Message_create(iter)
        /\ IF rres'.ok
           THEN msg' = rres'.val /\ origin' = "create" /\ pc' = "message"
           ELSE UNCHANGED <<msg, origin>> /\ pc' = "create_failed"
    /\ UNCHANGED <<elem, input, buf, wres>>

\* the bytes a reader handed to read_from, parse or read_single may hold
ReaderInputs == FrameInputs \cup RawInputs \cup FramedRawInputs \cup SessionStatusInputs

\* what a path given to Message::from_path may name: no file, or a file
\* holding bytes
Files == {None} \cup {Some(b) : b \in ReaderInputs}

\* Message::from_path on a path: `File::open(path)?` fails with Io before a
\* byte is read when no file is there, otherwise the file goes to read_from
FromPath ==
    /\ pc = "start"
    /\ \E file \in Files :
        /\ rres' = Message_from_path(file)
        /\ IF ~file.some
           THEN UNCHANGED <<msg, origin, input, buf>> /\ pc' = "open_failed"
           ELSE /\ input' = file.val
                /\ buf' = file.val
                /\ IF rres'.ok
                   THEN /\ msg' = rres'.val
                        /\ origin' = "from_path"
                        /\ pc' = "message"
                   ELSE UNCHANGED <<msg, origin>> /\ pc' = "from_path_failed"
    /\ UNCHANGED <<ies, elem, wres>>

\* Message::read_from on a reader holding the bytes b
ReadFrom ==
    /\ pc = "start"
    /\ \E b \in ReaderInputs :
        /\ input' = b
        /\ buf' = b
        /\ rres' = Message_read_from(b)
        /\ IF rres'.ok
           THEN msg' = rres'.val /\ origin' = "read_from" /\ pc' = "message"
           ELSE UNCHANGED <<msg, origin>> /\ pc' = "read_failed"
    /\ UNCHANGED <<ies, elem, wres>>

\* Message::write_to into an empty sink
WriteTo ==
    /\ pc = "message"
    /\ \E w \in Sinks :
        /\ wres' = Message_write_to(msg, w)
        /\ buf' = wres'.sink.bytes
    /\ pc' = "written"
    /\ UNCHANGED <<ies, msg, origin, elem, input, rres>>

\* Message::read_from on the bytes Message::write_to left in the sink
ReadBack ==
    /\ pc = "written"
    /\ rres' = Message_read_from(buf)
    /\ pc' = "read_back"
    /\ UNCHANGED <<ies, msg, origin, elem, input, buf, wres>>

\* InformationElement::write_to into an empty sink
ElementWriteTo ==
    /\ pc = "start"
    /\ \E e \in Elements, w \in Sinks :
        /\ elem' = e
        /\ wres' = InformationElement_write_to(e, w)
        /\ buf' = wres'.sink.bytes
    /\ pc' = "element_written"
    /\ UNCHANGED <<ies, msg, origin, input, rres>>

\* InformationElement::read_single on a reader holding the bytes b
ReadSingle ==
    /\ pc = "start"
    /\ \E b \in ReaderInputs :
        /\ input' = b
        /\ buf' = b
        /\ rres' = InformationElement_read_single(b, 0)
    /\ pc' = "element_read"
    /\ UNCHANGED <<ies, msg, origin, elem, wres>>

\* InformationElement::read_single on the bytes InformationElement::write_to
\* left in the sink
ReadSingleBack ==
    /\ pc = "element_written"
    /\ rres' = InformationElement_read_single(buf, 0)
    /\ pc' = "element_read_back"
    /\ UNCHANGED <<ies, msg, origin, elem, input, buf, wres>>

\* InformationElement::parse on a reader holding the bytes b
Parse ==
    /\ pc = "start"
    /\ \E b \in ReaderInputs :
        /\ input' = b
        /\ buf' = b
        /\ rres' = InformationElement_parse(b)
    /\ pc' = "parsed"
    /\ UNCHANGED <<ies, msg, origin, elem, wres>>

Next ==
    \/ New
    \/ Create
    \/ FromPath
    \/ ReadFrom
    \/ WriteTo
    \/ ReadBack
    \/ ElementWriteTo
    \/ ReadSingle
    \/ ReadSingleBack
    \/ Parse

Spec == Init /\ [][Next]_vars

(***************************************************************************)
(* What the claims speak of                                                *)
(***************************************************************************)
IsHeader(e) == e.tag = "Header"
IsPayload(e) == e.tag \in {"MOPayload", "MTPayload"}
IsLocation(e) == e.tag = "LocationInformation"
IsOther(e) == ~IsHeader(e) /\ ~IsPayload(e) /\ ~IsLocation(e)

NHeaders(s) == Len(SelectSeq(s, IsHeader))
NPayloads(s) == Len(SelectSeq(s, IsPayload))
NLocations(s) == Len(SelectSeq(s, IsLocation))
NoDuplicates(s) == NHeaders(s) <= 1 /\ NPayloads(s) <= 1 /\ NLocations(s) <= 1

\* Message::create has returned, and rres is what it returned for ies
CreateReturned == pc = "create_failed" \/ (pc = "message" /\ origin = "create")

\* the sink of the last writer was a Vec
IntoVec == ~wres.sink.limited

HeaderTimestampNonNegative(h) ==
    h.kind = "MO" => ~TimestampNegative(unix_timestamp(h.time_of_session))

\* the identifiers of the tag table
KnownIdentifiers == {1, 65, 2, 66, 3, 5, 68}

(***************************************************************************)
(* C1.  A Message built with Message::new or Message::create, with a       *)
(* non-negative header timestamp and a payload of at most 65535 bytes,     *)
(* that Message::write_to writes successfully is read back by              *)
(* Message::read_from as an equal Message.  Stated for the Messages most   *)
(* favourable to it: a timestamp of whole seconds that fits the 32-bit     *)
(* wire field, only confirmation statuses among the other elements, and a  *)
(* Vec as the sink.                                                        *)
(***************************************************************************)
FitsWireTimestamp(h) ==
    h.kind = "MO" =>
        /\ h.time_of_session.nanos = 0
        /\ h.time_of_session.hi \in 0..65535

OnlyStatuses(s) == \A i \in 1..Len(s) : s[i].tag = "Status"

C1_MessageRoundTrip ==
    (/\ pc = "read_back"
     /\ origin \in {"new", "create"}
     /\ HeaderTimestampNonNegative(msg.header)
     /\ FitsWireTimestamp(msg.header)
     /\ OnlyStatuses(msg.information_elements)
     /\ Len(msg.payload) <= 65535
     /\ wres.ok
     /\ IntoVec)
    => (rres.ok /\ rres.val = msg)

(***************************************************************************)
(* C2.  For bytes that Message::read_from accepts and that end with the    *)
(* declared overall length, Message::write_to of the decoded Message       *)
(* writes the same bytes.  Stated for the bytes most favourable to it: the *)
(* wire format of the decoded Message, with the elements in the writer's   *)
(* order, the payload identifier that of the header's direction, and every *)
(* element framed as identifier, length and body; and a Vec as the sink.   *)
(***************************************************************************)
\* an element on the wire: as the writer gives it, an MO confirmation status as
\* the 4 bytes its len() counts (identifier 0x05, length 1, the status byte)
WireOf(e) ==
    IF e.tag = "Status" /\ e.status.kind = "MO"
    THEN Wire(5, 1, <<IF e.status.status THEN 1 ELSE 0>>)
    ELSE Encoded(e)

WireFormat(m) ==
    LET body ==
            WireOf(IEHeader(m.header))
            \o WireOf(IF m.header.kind = "MO" THEN IEMOPayload(m.payload)
                      ELSE IEMTPayload(m.payload))
            \o (IF m.location.some THEN WireOf(IELocation(m.location.val)) ELSE <<>>)
            \o Concat([i \in 1..Len(m.information_elements) |->
                          WireOf(m.information_elements[i])])
    IN Frame(1, Len(body), body)

C2_ByteRoundTrip ==
    (/\ pc = "written"
     /\ origin = "read_from"
     /\ input = WireFormat(msg)
     /\ IntoVec)
    => (wres.ok /\ buf = input)

(***************************************************************************)
(* C3.  Message::create returns no Message for a sequence with two         *)
(* headers, two payloads (MO or MT, in any mix) or two locations: the      *)
(* first element that is a second of its kind makes it fail, with          *)
(* TwoHeaders for a header, TwoPayloads for a payload and TwoLocations for  *)
(* a location, and it fails so for no other sequence.                      *)
(***************************************************************************)
Class(e) ==
    CASE IsHeader(e) -> "Header"
      [] IsPayload(e) -> "Payload"
      [] IsLocation(e) -> "Location"
      [] OTHER -> "Other"

\* the element at i is a second header, a second payload or a second location
SecondAt(s, i) ==
    Class(s[i]) # "Other" /\ \E j \in 1..(i - 1) : Class(s[j]) = Class(s[i])

FirstSecond(s) ==
    CHOOSE i \in 1..Len(s) : SecondAt(s, i) /\ \A k \in 1..(i - 1) : ~SecondAt(s, k)

TwoOf(class) ==
    CASE class = "Header" -> "TwoHeaders"
      [] class = "Payload" -> "TwoPayloads"
      [] class = "Location" -> "TwoLocations"

C3_DuplicatesRejected ==
    CreateReturned =>
        /\ ~NoDuplicates(ies) =>
              /\ ~rres.ok
              /\ rres.err.kind = TwoOf(Class(ies[FirstSecond(ies)]))
        /\ rres.err.kind = "TwoHeaders" => NHeaders(ies) >= 2
        /\ rres.err.kind = "TwoPayloads" => NPayloads(ies) >= 2
        /\ rres.err.kind = "TwoLocations" => NLocations(ies) >= 2

\* create has failed with TwoPayloads on a header, an MO payload and an MT payload
C3_Witness ==
    /\ pc = "create_failed"
    /\ NHeaders(ies) = 1
    /\ Len(SelectSeq(ies, LAMBDA e : e.tag = "MOPayload")) = 1
    /\ Len(SelectSeq(ies, LAMBDA e : e.tag = "MTPayload")) = 1
    /\ rres.err.kind = "TwoPayloads"

(***************************************************************************)
(* C4.  As claimed: Message::create fails with NoHeader for every sequence *)
(* without a header and with NoPayload for every sequence without a        *)
(* payload.                                                                *)
(***************************************************************************)
C4_Original ==
    CreateReturned =>
        /\ NHeaders(ies) = 0 => (~rres.ok /\ rres.err.kind = "NoHeader")
        /\ NPayloads(ies) = 0 => (~rres.ok /\ rres.err.kind = "NoPayload")

(***************************************************************************)
(* C4, amended.  For a sequence without two headers, two payloads or two   *)
(* locations, Message::create fails with NoHeader when there is no header  *)
(* and with NoPayload when there is a header and no payload.               *)
(***************************************************************************)
C4_MissingRejected ==
    (CreateReturned /\ NoDuplicates(ies)) =>
        /\ NHeaders(ies) = 0 => (~rres.ok /\ rres.err.kind = "NoHeader")
        /\ (NHeaders(ies) = 1 /\ NPayloads(ies) = 0)
              => (~rres.ok /\ rres.err.kind = "NoPayload")

\* create has failed with NoHeader on a sequence with neither header nor payload
C4_Witness ==
    /\ pc = "create_failed"
    /\ NoDuplicates(ies)
    /\ Len(ies) >= 1
    /\ NHeaders(ies) = 0
    /\ NPayloads(ies) = 0
    /\ rres.err.kind = "NoHeader"

(***************************************************************************)
(* C5.  Message::create returns a Message exactly for the sequences with   *)
(* one header, one payload and at most one location, in any order; the     *)
(* Message holds that header, that payload's bytes, that location or none, *)
(* and the remaining elements in their order of arrival.                   *)
(***************************************************************************)
C5_CreateExactly ==
    CreateReturned =>
        /\ rres.ok <=> (NHeaders(ies) = 1 /\ NPayloads(ies) = 1 /\ NLocations(ies) <= 1)
        /\ rres.ok =>
              /\ rres.val.header = SelectSeq(ies, IsHeader)[1].header
              /\ rres.val.payload = SelectSeq(ies, IsPayload)[1].payload
              /\ rres.val.location =
                    IF NLocations(ies) = 1
                    THEN Some(SelectSeq(ies, IsLocation)[1].location)
                    ELSE None
              /\ rres.val.information_elements = SelectSeq(ies, IsOther)
              /\ msg = rres.val

\* create has returned a Message from a payload given before the header, with
\* two other elements around them
C5_Witness ==
    /\ pc = "message"
    /\ origin = "create"
    /\ IsPayload(ies[1])
    /\ Len(msg.information_elements) = 2
    /\ msg.information_elements[1] # msg.information_elements[2]

(***************************************************************************)
(* C6.  When InformationElement::write_to succeeds, it has written len()   *)
(* bytes: 31 for an MO header, 24 for an MT header, the payload and 3, 10  *)
(* or 14 for a location, 4 for an MO status, 28 for an MT status.          *)
(***************************************************************************)
C6_WrittenIsLen ==
    (pc = "element_written" /\ wres.ok) =>
        /\ Len(buf) = InformationElement_len(elem)
        /\ Len(buf) =
              CASE elem.tag = "Header" -> IF elem.header.kind = "MO" THEN 31 ELSE 24
                [] elem.tag \in {"MOPayload", "MTPayload"} -> Len(elem.payload) + 3
                [] elem.tag = "LocationInformation" ->
                      IF elem.location.radius.some THEN 14 ELSE 10
                [] elem.tag = "Status" -> IF elem.status.kind = "MO" THEN 4 ELSE 28

(***************************************************************************)
(* C7.  When Message::write_to returns Ok (here: into a Vec), it has       *)
(* written length() bytes, and the 16-bit field at offsets 1..2 is the     *)
(* number of bytes written after the 3-byte frame.                         *)
(***************************************************************************)
C7_FrameLength ==
    (pc = "written" /\ wres.ok /\ IntoVec) =>
        /\ Len(buf) = Message_length(msg)
        /\ U16At(buf, 1) = Len(buf) - 3

(***************************************************************************)
(* C8.  When InformationElement::read_single succeeds, it has consumed the *)
(* 3-byte prefix and the declared length, whatever the identifier.         *)
(***************************************************************************)
C8_ConsumesDeclared ==
    (pc = "element_read" /\ rres.ok) => rres.pos = 3 + U16At(input, 1)

(***************************************************************************)
(* C9.  InformationElement::read_single fails on an element whose declared *)
(* length is more than the bytes that follow its 3-byte prefix, and never  *)
(* stops beyond the end of the bytes.                                      *)
(***************************************************************************)
C9_TruncationRejected ==
    (pc = "element_read" /\ Len(input) >= 3) =>
        /\ U16At(input, 1) > Len(input) - 3 => ~rres.ok
        /\ rres.pos <= Len(input)

(***************************************************************************)
(* C10.  As claimed: on every input whose first byte is not an identifier  *)
(* of the table, InformationElement::read_single fails with                *)
(* InvalidInformationElementIdentifier carrying that byte.                 *)
(***************************************************************************)
C10_Original ==
    (pc = "element_read" /\ Len(input) >= 1 /\ input[1] \notin KnownIdentifiers) =>
        (~rres.ok /\ rres.err = Error("InvalidInformationElementIdentifier", input[1]))

(***************************************************************************)
(* C10, amended.  On every input of at least three bytes (the identifier   *)
(* and the 16-bit length) whose first byte is not an identifier of the     *)
(* table, InformationElement::read_single fails with                       *)
(* InvalidInformationElementIdentifier carrying that byte; on a shorter    *)
(* input it fails with an I/O error.                                       *)
(***************************************************************************)
C10_UnknownIdentifier ==
    (pc = "element_read" /\ Len(input) >= 1 /\ input[1] \notin KnownIdentifiers) =>
        /\ ~rres.ok
        /\ Len(input) >= 3 =>
              rres.err = Error("InvalidInformationElementIdentifier", input[1])
        /\ Len(input) < 3 => rres.err = Io

\* read_single has refused the identifier 0x43 in front of a whole MT status body
C10_Witness ==
    /\ pc = "element_read"
    /\ Len(input) >= 28
    /\ input[1] = 67
    /\ U16At(input, 1) = 25
    /\ rres.err = Error("InvalidInformationElementIdentifier", 67)

(***************************************************************************)
(* C11.  InformationElement::parse and Message::read_from fail with        *)
(* InvalidProtocolRevisionNumber(v) on every input whose first byte v is   *)
(* not 1, whatever follows it (nothing at all included), and return no     *)
(* information elements; an input whose first byte is 1 is never refused   *)
(* with that error.                                                        *)
(***************************************************************************)
\* parse or read_from has returned, and rres is what it returned for input
ParseReturned == pc = "parsed"
ReadFromReturned == pc = "read_failed" \/ (pc = "message" /\ origin = "read_from")

C11_RevisionChecked ==
    ((ParseReturned \/ ReadFromReturned) /\ Len(input) >= 1) =>
        /\ input[1] # 1 =>
              /\ ~rres.ok
              /\ rres.err = Error("InvalidProtocolRevisionNumber", input[1])
        /\ input[1] = 1 => rres.err.kind # "InvalidProtocolRevisionNumber"

\* parse has refused a single byte that is not the revision 1
C11_Witness ==
    /\ pc = "parsed"
    /\ Len(input) = 1
    /\ input[1] = 65
    /\ rres.err = Error("InvalidProtocolRevisionNumber", 65)

(***************************************************************************)
(* C12.  When the post-frame total length() - 3 of a Message is more than  *)
(* 65535, Message::write_to returns OverallMessageLength carrying that     *)
(* total and leaves the sink as it was: no byte is written.  It returns    *)
(* that error for no other Message.                                        *)
(***************************************************************************)
C12_OverallLengthRefused ==
    pc = "written" =>
        /\ Message_length(msg) - 3 > U16_MAX =>
              /\ ~wres.ok
              /\ wres.err = Error("OverallMessageLength", Message_length(msg) - 3)
              /\ wres.sink.bytes = <<>>
              /\ buf = <<>>
        /\ wres.err.kind = "OverallMessageLength" => Message_length(msg) - 3 > U16_MAX

\* write_to has refused an MT message whose payload is within the payload limit
\* and whose post-frame total is 65536
C12_Witness ==
    /\ pc = "written"
    /\ msg.header.kind = "MT"
    /\ Len(msg.payload) <= U16_MAX
    /\ Message_length(msg) - 3 = U16_MAX + 1
    /\ wres.err = Error("OverallMessageLength", U16_MAX + 1)
    /\ buf = <<>>

(***************************************************************************)
(* C13.  InformationElement::write_to of an MOPayload or MTPayload into a  *)
(* Vec succeeds for every body of 0..65535 bytes, writing the identifier,  *)
(* the length as 16 bits big-endian and the body; for every body of 65536  *)
(* bytes or more it fails with PayloadTooLong carrying the length (the     *)
(* sinks here all take the identifier byte, written before the length is   *)
(* examined).                                                              *)
(***************************************************************************)
C13_PayloadLimit ==
    (pc = "element_written" /\ IsPayload(elem)) =>
        /\ (Len(elem.payload) <= U16_MAX /\ IntoVec) =>
              /\ wres.ok
              /\ buf = <<IF elem.tag = "MOPayload" THEN 2 ELSE 66>>
                       \o <<Len(elem.payload) \div 256, Len(elem.payload) % 256>>
                       \o elem.payload
        /\ Len(elem.payload) > U16_MAX =>
              /\ ~wres.ok
              /\ wres.err = Error("PayloadTooLong", Len(elem.payload))

\* an MT payload of 65536 bytes has been refused after its identifier was written
C13_Witness ==
    /\ pc = "element_written"
    /\ elem.tag = "MTPayload"
    /\ Len(elem.payload) = U16_MAX + 1
    /\ ~wres.ok
    /\ wres.err = Error("PayloadTooLong", U16_MAX + 1)
    /\ buf = <<66>>

(***************************************************************************)
(* C14.  As claimed: Message::write_to of a Message whose payload is       *)
(* longer than 65535 bytes fails with PayloadTooLong.                      *)
(***************************************************************************)
C14_Original ==
    (pc = "written" /\ Len(msg.payload) > U16_MAX) =>
        (~wres.ok /\ wres.err.kind = "PayloadTooLong")

(***************************************************************************)
(* C14, amended.  Message::write_to of a Message whose payload is longer   *)
(* than 65535 bytes fails with OverallMessageLength: the post-frame total  *)
(* holds the payload and is examined first.  Message::write_to returns     *)
(* PayloadTooLong for no Message.                                          *)
(***************************************************************************)
C14_LongPayloadRefused ==
    pc = "written" =>
        /\ Len(msg.payload) > U16_MAX =>
              /\ ~wres.ok
              /\ wres.err.kind = "OverallMessageLength"
              /\ wres.err.arg > Len(msg.payload)
        /\ wres.err.kind # "PayloadTooLong"

\* write_to has refused an MO message with a payload of 65536 bytes
C14_Witness ==
    /\ pc = "written"
    /\ msg.header.kind = "MO"
    /\ Len(msg.payload) = U16_MAX + 1
    /\ ~wres.ok
    /\ wres.err.kind = "OverallMessageLength"

(***************************************************************************)
(* C15.  mo::Header::write_to, given a sink with room for the header,      *)
(* fails with NegativeTimestamp exactly when the Unix timestamp of the     *)
(* header is below 0, and succeeds for every timestamp from 0 on, the      *)
(* epoch included.  Whatever the sink, it returns NegativeTimestamp for no *)
(* timestamp from 0 on.                                                    *)
(***************************************************************************)
\* the sink of the last writer takes n bytes
SinkTakes(n) == ~wres.sink.limited \/ wres.sink.cap >= n

MOHeaderWritten ==
    pc = "element_written" /\ elem.tag = "Header" /\ elem.header.kind = "MO"

C15_NegativeTimestampRefused ==
    MOHeaderWritten =>
        /\ (SinkTakes(31) /\ elem.header.time_of_session.hi < 0) =>
              /\ ~wres.ok
              /\ wres.err = Error("NegativeTimestamp",
                                  elem.header.time_of_session.hi * 65536
                                  + elem.header.time_of_session.lo)
        /\ (SinkTakes(31) /\ elem.header.time_of_session.hi >= 0) =>
              (wres.ok /\ Len(buf) = 31)
        /\ wres.err.kind = "NegativeTimestamp" => elem.header.time_of_session.hi < 0

\* a header with the epoch as its time has been written, the time field all zero
C15_Witness ==
    /\ MOHeaderWritten
    /\ elem.header.time_of_session = TEpoch
    /\ wres.ok
    /\ Len(buf) = 31
    /\ BytesAt(buf, 27, 4) = <<0, 0, 0, 0>>

(***************************************************************************)
(* C16.  For every MO header with a non-negative timestamp,                *)
(* InformationElement::write_to followed by InformationElement::read_single *)
(* on the written bytes returns an element equal to the original, the time *)
(* of session included.  Stated for the headers most favourable to it: a   *)
(* time of whole seconds, written into a Vec.                              *)
(***************************************************************************)
C16_MOHeaderRoundTrip ==
    (/\ pc = "element_read_back"
     /\ elem.tag = "Header"
     /\ elem.header.kind = "MO"
     /\ elem.header.time_of_session.hi >= 0
     /\ elem.header.time_of_session.nanos = 0
     /\ IntoVec)
    => (wres.ok /\ rres.ok /\ rres.val = elem /\ rres.pos = Len(buf))

(***************************************************************************)
(* C17.  Every failure of the sink during Message::write_to makes it       *)
(* return an I/O error: when the bytes Message::write_to sets out to write *)
(* are more than a bounded sink takes, it does not return Ok.              *)
(***************************************************************************)
\* the number of bytes Message::write_to hands to a sink that takes them all
AttemptedBytes(m) == Len(Message_write_to(m, Sink(<<>>, FALSE, 0)).sink.bytes)

C17_SinkFailurePropagates ==
    (pc = "written" /\ wres.sink.limited /\ AttemptedBytes(msg) > wres.sink.cap) =>
        (~wres.ok /\ wres.err = Io)

(***************************************************************************)
(* C18.  The direction of a decoded location depends on the top two bits   *)
(* of the flags byte alone: NE for 00, SE for 01, NW for 10, SW for 11,    *)
(* whatever the lower six bits; the flags byte written for a location has  *)
(* its lower six bits zero and the direction in its top two.               *)
(***************************************************************************)
Quadrant(flags) ==
    CASE flags \div 64 = 0 -> "NE"
      [] flags \div 64 = 1 -> "SE"
      [] flags \div 64 = 2 -> "NW"
      [] flags \div 64 = 3 -> "SW"

C18_DirectionFromTopBits ==
    /\ (pc = "element_read" /\ rres.ok /\ rres.val.tag = "LocationInformation") =>
          rres.val.location.direction = Quadrant(input[4])
    /\ (pc = "element_written" /\ elem.tag = "LocationInformation" /\ Len(buf) >= 4) =>
          /\ buf[4] % 64 = 0
          /\ Quadrant(buf[4]) = elem.location.direction

(***************************************************************************)
(* C19.  InformationElement::read_single on a location element (0x03)      *)
(* decodes it when the declared length is 7 or more and that many bytes    *)
(* follow; the radius is present exactly when the declared length is 11,   *)
(* and is then the last four bytes; len() of the decoded element is 14     *)
(* with a radius and 10 without; a declared length of 8 gives a location   *)
(* without radius.                                                         *)
(***************************************************************************)
LocationRead == pc = "element_read" /\ Len(input) >= 3 /\ input[1] = 3

C19_RadiusFromDeclaredLength ==
    LocationRead =>
        /\ rres.ok <=> (U16At(input, 1) >= 7 /\ Len(input) - 3 >= U16At(input, 1))
        /\ rres.ok =>
              /\ rres.val.tag = "LocationInformation"
              /\ rres.val.location.radius.some <=> U16At(input, 1) = 11
              /\ rres.val.location.radius.some =>
                    /\ rres.val.location.radius.val = U32At(input, 10)
                    /\ InformationElement_len(rres.val) = 14
              /\ ~rres.val.location.radius.some => InformationElement_len(rres.val) = 10
              /\ rres.val.location.latitude = <<input[5], U16At(input, 5)>>
              /\ rres.val.location.longitude = <<input[8], U16At(input, 8)>>

\* a location with a declared length of 8 has been decoded without radius
C19_Witness ==
    /\ LocationRead
    /\ U16At(input, 1) = 8
    /\ rres.ok
    /\ ~rres.val.location.radius.some
    /\ InformationElement_len(rres.val) = 10

(***************************************************************************)
(* C20.  For every LocationInformation (each direction, any latitude and   *)
(* longitude, with or without radius), InformationElement::write_to        *)
(* followed by InformationElement::read_single on the written bytes        *)
(* returns an equal element and consumes all the written bytes.            *)
(***************************************************************************)
C20_LocationRoundTrip ==
    (pc = "element_read_back" /\ elem.tag = "LocationInformation" /\ wres.ok) =>
        /\ rres.ok
        /\ rres.val = elem
        /\ rres.pos = Len(buf)
        /\ Len(buf) = InformationElement_len(elem)

\* a location to the south-west with a radius has been written and read back
C20_Witness ==
    /\ pc = "element_read_back"
    /\ elem.tag = "LocationInformation"
    /\ elem.location.direction = "SW"
    /\ elem.location.latitude # elem.location.longitude
    /\ elem.location.radius = Some(<<65535, 65535>>)
    /\ rres.ok
    /\ rres.val = elem
    /\ rres.pos = 14

(***************************************************************************)
(* C21.  InformationElement::write_to encodes an MO confirmation status as *)
(* a whole element of 4 bytes (identifier 0x05, length 1, the status       *)
(* byte), and InformationElement::read_single on the written bytes returns *)
(* an equal Status element, for the status true and for the status false.  *)
(***************************************************************************)
C21_MOStatusRoundTrip ==
    (/\ pc = "element_read_back"
     /\ elem.tag = "Status"
     /\ elem.status.kind = "MO"
     /\ SinkTakes(4))
    => /\ wres.ok
       /\ buf = <<5, 0, 1, IF elem.status.status THEN 1 ELSE 0>>
       /\ rres.ok
       /\ rres.val = elem
       /\ rres.pos = 4

(***************************************************************************)
(* C22.  On every byte sequence, Message::read_from, InformationElement::  *)
(* parse and InformationElement::read_single return a value or an Error of *)
(* the crate; none of them panics, whatever the identifiers, the 32-bit    *)
(* time field and the declared lengths.                                    *)
(***************************************************************************)
\* the variants of Error (TwoLocations as Message::create names it)
ErrorVariants ==
    {"Io", "InvalidProtocolRevisionNumber", "InvalidInformationElementIdentifier",
     "NegativeTimestamp", "OverallMessageLength", "PayloadTooLong", "NoHeader",
     "NoPayload", "TwoHeaders", "TwoPayloads", "TwoLocations", "UnknownSessionStatus"}

DecodeReturned == ParseReturned \/ ReadFromReturned \/ pc = "element_read"

C22_DecodeNeverPanics ==
    DecodeReturned =>
        /\ rres.err # Panic
        /\ rres.ok => rres.err = NoError
        /\ ~rres.ok => rres.err.kind \in ErrorVariants

\* parse has decoded an MO header whose time field is FF FF FF FF
C22_Witness ==
    /\ pc = "parsed"
    /\ rres.ok
    /\ Len(rres.val) >= 1
    /\ rres.val[1].tag = "Header"
    /\ rres.val[1].header.kind = "MO"
    /\ BytesAt(input, 30, 4) = <<255, 255, 255, 255>>
    /\ rres.val[1].header.time_of_session = TLast32Bits

(***************************************************************************)
(* C23.  Decoding an MO header whose session status byte is outside the    *)
(* enumeration fails with UnknownSessionStatus carrying that byte, in      *)
(* read_single and, for the header that opens a message, in parse and      *)
(* read_from, which then yield no Message; no byte of the enumeration      *)
(* gives that error.                                                       *)
(***************************************************************************)
\* the input is a frame that opens with an MO header element, with the 20
\* bytes up to the session status inside the declared region
OpensWithMOHeader ==
    /\ Len(input) >= 26
    /\ input[1] = 1
    /\ input[4] = 1
    /\ U16At(input, 1) >= 23
    /\ Len(input) >= 3 + U16At(input, 1)

C23_UnknownSessionStatus ==
    /\ (pc = "element_read" /\ Len(input) >= 23 /\ input[1] = 1) =>
          /\ input[23] \notin SessionStatusCodes =>
                (~rres.ok /\ rres.err = Error("UnknownSessionStatus", input[23]))
          /\ input[23] \in SessionStatusCodes => rres.err.kind # "UnknownSessionStatus"
    /\ (pc \in {"parsed", "read_failed"} /\ OpensWithMOHeader) =>
          (input[26] \notin SessionStatusCodes =>
                (~rres.ok /\ rres.err = Error("UnknownSessionStatus", input[26])))
    /\ (pc = "message" /\ origin = "read_from" /\ OpensWithMOHeader) =>
          input[26] \in SessionStatusCodes
    /\ (DecodeReturned /\ rres.err.kind = "UnknownSessionStatus") =>
          rres.err.arg \notin SessionStatusCodes

\* read_from has refused a message for the session status byte 0xFF of its header
C23_Witness ==
    /\ pc = "read_failed"
    /\ OpensWithMOHeader
    /\ Len(input) = 38
    /\ input[26] = 255
    /\ rres.err = Error("UnknownSessionStatus", 255)

(***************************************************************************)
(* C24.  InformationElement::parse ends on every input.  It reads at most  *)
(* the 3 bytes of the frame and the declared overall length from the       *)
(* source; at every position of the bounded region read_single either      *)
(* fails or stops at least 3 bytes further and inside the region; and on   *)
(* success the cursor is at the declared overall length exactly, with at   *)
(* most a third of it as the number of elements.                           *)
(***************************************************************************)
ParsedFrame == pc = "parsed" /\ Len(input) >= 3 /\ input[1] = 1

C24_ParseBounded ==
    pc = "parsed" =>
        /\ rres.pos <= Len(input)
        /\ ParsedFrame => rres.pos <= 3 + U16At(input, 1)
        /\ (ParsedFrame /\ Len(input) >= 3 + U16At(input, 1)) =>
              /\ rres.pos = 3 + U16At(input, 1)
              /\ rres.cursor <= U16At(input, 1)
              /\ \A p \in 0..(U16At(input, 1) - 1) :
                    LET r == InformationElement_read_single(
                                 BytesAt(input, 3, U16At(input, 1)), p)
                    IN /\ r.pos <= U16At(input, 1)
                       /\ r.ok => r.pos >= p + 3
        /\ rres.ok =>
              /\ ParsedFrame
              /\ rres.cursor = U16At(input, 1)
              /\ 3 * Len(rres.val) <= rres.cursor

\* parse has returned three elements that fill the declared length, the last
\* of them an MO confirmation status of 4 bytes
C24_Witness ==
    /\ pc = "parsed"
    /\ rres.ok
    /\ Len(rres.val) = 3
    /\ rres.val[3] = IEStatus(MOStatus(TRUE))
    /\ rres.cursor = U16At(input, 1)
    /\ rres.pos = 3 + rres.cursor

(***************************************************************************)
(* C25.  What Message::write_to writes into a Vec when it succeeds is the  *)
(* 3-byte frame, then the header as its writer gives it, then one payload  *)
(* element, then the location if there is one, then the other elements in  *)
(* the order they are stored.  The identifier of the payload element is    *)
(* 0x02 under an MO header and 0x42 under an MT header, whichever payload  *)
(* element the payload came from.                                          *)
(***************************************************************************)
PayloadElementOf(m) ==
    IF m.header.kind = "MO" THEN IEMOPayload(m.payload) ELSE IEMTPayload(m.payload)

C25_WriteOrder ==
    (pc = "written" /\ wres.ok /\ IntoVec) =>
        /\ Len(buf) >= 3
        /\ buf[1] = 1
        /\ SubSeq(buf, 4, Len(buf)) =
              Encoded(IEHeader(msg.header))
              \o Encoded(PayloadElementOf(msg))
              \o (IF msg.location.some THEN Encoded(IELocation(msg.location.val))
                  ELSE <<>>)
              \o Concat([i \in 1..Len(msg.information_elements) |->
                            Encoded(msg.information_elements[i])])
        /\ buf[4 + Header_len(msg.header)] = IF msg.header.kind = "MO" THEN 2 ELSE 66
        /\ SubSeq(buf, 7 + Header_len(msg.header),
                  6 + Header_len(msg.header) + Len(msg.payload)) = msg.payload

\* a Message created from an MO header, an MT payload element, a location and
\* a status has been written with the payload identifier 0x02
C25_Witness ==
    /\ pc = "written"
    /\ origin = "create"
    /\ wres.ok
    /\ IntoVec
    /\ msg.header.kind = "MO"
    /\ \E i \in 1..Len(ies) : ies[i].tag = "MTPayload"
    /\ msg.location.some
    /\ Len(msg.information_elements) = 1
    /\ buf[35] = 2

(***************************************************************************)
(* C26.  Message::create takes the elements in their order of arrival and  *)
(* stops at the first one that is a second header, payload or location:    *)
(* the error is TwoHeaders, TwoPayloads or TwoLocations by the kind of     *)
(* that element, whatever comes after it and whatever is missing.  A       *)
(* missing header or payload is reported only for a sequence without such  *)
(* an element, and NoHeader comes before NoPayload when both are missing.  *)
(***************************************************************************)
HasDuplicateWithin(s, k) == ~NoDuplicates(SubSeq(s, 1, k))

\* the length of the shortest prefix of s that holds two of a kind
ShortestDuplicatePrefix(s) ==
    CHOOSE k \in 1..Len(s) :
        HasDuplicateWithin(s, k) /\ \A j \in 1..(k - 1) : ~HasDuplicateWithin(s, j)

C26_ErrorPrecedence ==
    CreateReturned =>
        /\ HasDuplicateWithin(ies, Len(ies)) =>
              /\ ~rres.ok
              /\ rres.err.kind = TwoOf(Class(ies[ShortestDuplicatePrefix(ies)]))
              /\ rres = Message_create(SubSeq(ies, 1, ShortestDuplicatePrefix(ies)))
        /\ rres.err.kind \in {"NoHeader", "NoPayload"} => NoDuplicates(ies)
        /\ (NoDuplicates(ies) /\ NHeaders(ies) = 0 /\ NPayloads(ies) = 0) =>
              (~rres.ok /\ rres.err.kind = "NoHeader")
        /\ rres.err.kind = "NoPayload" => NHeaders(ies) = 1

\* create has failed with TwoPayloads on a sequence that has no header at all
\* and two locations as well, the second payload arriving before the second
\* location
C26_Witness ==
    /\ pc = "create_failed"
    /\ NHeaders(ies) = 0
    /\ NPayloads(ies) = 2
    /\ NLocations(ies) = 2
    /\ IsPayload(ies[ShortestDuplicatePrefix(ies)])
    /\ rres.err.kind = "TwoPayloads"

(***************************************************************************)
(* C27.  For every mt::ConfirmationStatus, negative statuses included,     *)
(* write_to writes the identifier 0x44, the length 25 and a body of 25     *)
(* bytes, 28 bytes in all as len() says, and InformationElement::          *)
(* read_single on those bytes returns an equal Status element; status() is *)
(* true exactly when the signed 16-bit status on the wire is above zero.   *)
(***************************************************************************)
MTStatusReadBack ==
    /\ pc = "element_read_back"
    /\ elem.tag = "Status"
    /\ elem.status.kind = "MT"
    /\ SinkTakes(28)

C27_MTStatusRoundTrip ==
    MTStatusReadBack =>
        /\ wres.ok
        /\ Len(buf) = 28
        /\ Len(buf) = InformationElement_len(elem)
        /\ buf[1] = 68
        /\ U16At(buf, 1) = 25
        /\ U32At(buf, 3) = elem.status.message_id
        /\ BytesAt(buf, 7, 15) = elem.status.imei
        /\ U32At(buf, 22) = elem.status.auto_id
        /\ rres.ok
        /\ rres.val = elem
        /\ rres.pos = 28
        /\ mt_ConfirmationStatus_status(rres.val.status)
              <=> U16At(buf, 26) \in 1..32767

\* a status of -32768 has been written as 80 00 and read back, status() false
C27_Witness ==
    /\ MTStatusReadBack
    /\ elem.status.status = -32768
    /\ BytesAt(buf, 26, 2) = <<128, 0>>
    /\ rres.ok
    /\ rres.val = elem
    /\ ~mt_ConfirmationStatus_status(rres.val.status)

====
